---- MODULE Spec2Model ----
(***************************************************************************)
(* Model of Path_Finder.py: TessdataFinder, the tiered, budgeted search    *)
(* for tessdata directories.  Path strings are sequences of one-character  *)
(* strings so that lower(), substring tests, normpath() and the sort key   *)
(* are computed as the Python code computes them.  The platform modelled   *)
(* is a POSIX one (os_type = "linux").                                     *)
(***************************************************************************)
EXTENDS Integers, Sequences, FiniteSets, TLC

(***************************************************************************)
(* Bounds of the model                                                     *)
(***************************************************************************)
MaxTimeout == 1          \* timeout is drawn from 0..MaxTimeout
MaxWorkers == 2          \* max_workers is drawn from 1..MaxWorkers
MaxTime == 3             \* the clock stops advancing at MaxTime

(***************************************************************************)
(* Call by value: an argument is evaluated once, before the body runs      *)
(***************************************************************************)
With(v, Op(_)) == CHOOSE r \in {Op(a) : a \in {v}} : TRUE
With2(v, w, Op(_, _)) == CHOOSE r \in {Op(a, b) : a \in {v}, b \in {w}} : TRUE
With3(u, v, w, Op(_, _, _)) ==
  CHOOSE r \in {Op(a, b, c) : a \in {u}, b \in {v}, c \in {w}} : TRUE

(***************************************************************************)
(* Characters and strings                                                  *)
(***************************************************************************)
\* the characters used, in code point order (Python compares str by code point)
CodeOrder ==
  <<" ", "$", "-", ".", "/", "0", "1", "2", "3", "4", "5", "6", "7", "8", "9",
    "A", "B", "C", "D", "E", "F", "G", "H", "I", "J", "K", "L", "M", "N", "O",
    "P", "Q", "R", "S", "T", "U", "V", "W", "X", "Y", "Z", "_",
    "a", "b", "c", "d", "e", "f", "g", "h", "i", "j", "k", "l", "m", "n", "o",
    "p", "q", "r", "s", "t", "u", "v", "w", "x", "y", "z", "~">>

OrdTable ==
  [c \in {CodeOrder[i] : i \in 1..Len(CodeOrder)} |->
     CHOOSE i \in 1..Len(CodeOrder) : CodeOrder[i] = c]

\* ord(c), up to an order-preserving renumbering
Ord(c) == OrdTable[c]

UpperChars ==
  <<"A", "B", "C", "D", "E", "F", "G", "H", "I", "J", "K", "L", "M", "N", "O",
    "P", "Q", "R", "S", "T", "U", "V", "W", "X", "Y", "Z">>
LowerChars ==
  <<"a", "b", "c", "d", "e", "f", "g", "h", "i", "j", "k", "l", "m", "n", "o",
    "p", "q", "r", "s", "t", "u", "v", "w", "x", "y", "z">>

\* str.lower() on one character
LowerTable ==
  [c \in {UpperChars[i] : i \in 1..Len(UpperChars)} |->
     LowerChars[CHOOSE i \in 1..Len(UpperChars) : UpperChars[i] = c]]

LowerChar(c) == IF c \in DOMAIN LowerTable THEN LowerTable[c] ELSE c

\* str.lower()
lower(s) == With(s, LAMBDA str : [i \in 1..Len(str) |-> LowerChar(str[i])])

\* char.isdigit()
isdigit(c) == c \in {"0", "1", "2", "3", "4", "5", "6", "7", "8", "9"}

\* Python "k in s" on strings
In(k, s) ==
  With2(k, s, LAMBDA sub, str :
    \E i \in 1..(Len(str) - Len(sub) + 1) : SubSeq(str, i, i + Len(sub) - 1) = sub)

\* Python s.startswith(k) and s.endswith(k)
startswith(s, k) ==
  With(s, LAMBDA str : Len(str) >= Len(k) /\ SubSeq(str, 1, Len(k)) = k)
endswith(s, k) ==
  With(s, LAMBDA str :
    Len(str) >= Len(k) /\ SubSeq(str, Len(str) - Len(k) + 1, Len(str)) = k)

\* Python a < b on strings
StrLess(a, b) ==
  With2(a, b, LAMBDA x, y :
    \E i \in 1..Len(y) :
       /\ \A j \in 1..(i - 1) : j <= Len(x) /\ x[j] = y[j]
       /\ \/ i = Len(x) + 1
          \/ i <= Len(x) /\ Ord(x[i]) < Ord(y[i]))

\* s.split('/')
RECURSIVE split(_)
split(s) ==
  With(s, LAMBDA str :
    IF \A i \in 1..Len(str) : str[i] # "/" THEN <<str>>
    ELSE With(CHOOSE k \in 1..Len(str) :
                 str[k] = "/" /\ \A j \in 1..(k - 1) : str[j] # "/",
              LAMBDA i : <<SubSeq(str, 1, i - 1)>>
                           \o split(SubSeq(str, i + 1, Len(str)))))

\* '/'.join(comps)
RECURSIVE joinslash(_)
joinslash(comps) ==
  With(comps, LAMBDA cs :
    IF Len(cs) = 0 THEN <<>>
    ELSE IF Len(cs) = 1 THEN cs[1]
    ELSE cs[1] \o <<"/">> \o joinslash(Tail(cs)))

\* os.path.join(a, b) of posixpath
pathjoin(a, b) ==
  With2(a, b, LAMBDA x, y :
    IF startswith(y, <<"/">>) THEN y
    ELSE IF x = <<>> \/ endswith(x, <<"/">>) THEN x \o y
    ELSE x \o <<"/">> \o y)

\* the component loop of posixpath.normpath
RECURSIVE NormComps(_, _, _)
NormComps(comps, new_comps, initial_slashes) ==
  With2(comps, new_comps, LAMBDA cs, new :
    IF cs = <<>> THEN new
    ELSE LET comp == Head(cs)
             dotdot == <<".", ".">>
         IN  IF comp = <<>> \/ comp = <<".">>
               THEN NormComps(Tail(cs), new, initial_slashes)
             ELSE IF \/ comp # dotdot
                     \/ (initial_slashes = 0 /\ new = <<>>)
                     \/ (new # <<>> /\ new[Len(new)] = dotdot)
               THEN NormComps(Tail(cs), Append(new, comp), initial_slashes)
             ELSE IF new # <<>>
               THEN NormComps(Tail(cs), SubSeq(new, 1, Len(new) - 1), initial_slashes)
             ELSE NormComps(Tail(cs), new, initial_slashes))

\* os.path.normpath of posixpath
normpath(path) ==
  With(path, LAMBDA p :
    IF p = <<>> THEN <<".">>
    ELSE LET initial_slashes ==
               IF ~startswith(p, <<"/">>) THEN 0
               ELSE IF startswith(p, <<"/", "/">>) /\ ~startswith(p, <<"/", "/", "/">>)
                 THEN 2 ELSE 1
             body == joinslash(NormComps(split(p), <<>>, initial_slashes))
         IN  With([i \in 1..initial_slashes |-> "/"] \o body,
                  LAMBDA res : IF res = <<>> THEN <<".">> ELSE res))

\* current working directory of the process
Cwd == <<"/">>

\* os.path.abspath of posixpath
abspath(path) ==
  With(path, LAMBDA p :
    IF startswith(p, <<"/">>) THEN normpath(p) ELSE normpath(pathjoin(Cwd, p)))

\* Path(p).name: the last component
basename(path) == With(split(path), LAMBDA c : c[Len(c)])

\* Path(p).parent as a string (posixpath.dirname)
dirname(path) ==
  With(split(path), LAMBDA c :
    With(joinslash(SubSeq(c, 1, Len(c) - 1)), LAMBDA head :
      IF Len(c) = 1 THEN <<>>
      ELSE IF head = <<>> THEN <<"/">> ELSE head))
(***************************************************************************)
(* The filesystem the search runs on: a tree of directories.  link # 0     *)
(* makes the entry a symbolic link to that directory.                      *)
(***************************************************************************)
s_usr == <<"u", "s", "r">>
s_bin == <<"b", "i", "n">>
s_share == <<"s", "h", "a", "r", "e">>
s_local == <<"l", "o", "c", "a", "l">>
s_opt == <<"o", "p", "t">>
s_data == <<"d", "a", "t", "a">>
s_ocr == <<"o", "c", "r">>
s_weird == <<"w", "e", "i", "r", "d">>
s_five == <<"5">>
s_recycle == <<"$", "r", "e", "c", "y", "c", "l", "e", ".", "b", "i", "n">>
s_tesseract_ocr == <<"t", "e", "s", "s", "e", "r", "a", "c", "t", "-", "o", "c", "r">>
s_tessdata == <<"t", "e", "s", "s", "d", "a", "t", "a">>
s_tesseract == <<"t", "e", "s", "s", "e", "r", "a", "c", "t">>
s_tesseract_exe == <<"t", "e", "s", "s", "e", "r", "a", "c", "t", ".", "e", "x", "e">>

Root == 1
NoNode == 0

Dirs ==
  << [name |-> <<>>,            parent |-> 1,  link |-> 0],    \* 1  /
     [name |-> s_usr,           parent |-> 1,  link |-> 0],    \* 2  /usr
     [name |-> s_bin,           parent |-> 2,  link |-> 0],    \* 3  /usr/bin
     [name |-> s_share,         parent |-> 2,  link |-> 0],    \* 4  /usr/share
     [name |-> s_tesseract_ocr, parent |-> 4,  link |-> 0],    \* 5  /usr/share/tesseract-ocr
     [name |-> s_tessdata,      parent |-> 5,  link |-> 0],    \* 6  /usr/share/tesseract-ocr/tessdata
     [name |-> s_five,          parent |-> 5,  link |-> 0],    \* 7  /usr/share/tesseract-ocr/5
     [name |-> s_tessdata,      parent |-> 7,  link |-> 0],    \* 8  /usr/share/tesseract-ocr/5/tessdata
     [name |-> s_tessdata,      parent |-> 4,  link |-> 0],    \* 9  /usr/share/tessdata
     [name |-> s_local,         parent |-> 2,  link |-> 0],    \* 10 /usr/local
     [name |-> s_share,         parent |-> 10, link |-> 0],    \* 11 /usr/local/share
     [name |-> s_tessdata,      parent |-> 11, link |-> 0],    \* 12 /usr/local/share/tessdata
     [name |-> s_opt,           parent |-> 1,  link |-> 0],    \* 13 /opt
     [name |-> s_weird,         parent |-> 13, link |-> 0],    \* 14 /opt/weird
     [name |-> s_tessdata,      parent |-> 14, link |-> 0],    \* 15 /opt/weird/tessdata
     [name |-> s_recycle,       parent |-> 13, link |-> 0],    \* 16 /opt/$recycle.bin
     [name |-> s_tessdata,      parent |-> 16, link |-> 0],    \* 17 /opt/$recycle.bin/tessdata
     [name |-> s_tessdata,      parent |-> 13, link |-> 12],   \* 18 /opt/tessdata -> /usr/local/share/tessdata
     [name |-> s_data,          parent |-> 1,  link |-> 0],    \* 19 /data
     [name |-> s_ocr,           parent |-> 19, link |-> 0],    \* 20 /data/ocr
     [name |-> s_tessdata,      parent |-> 20, link |-> 0],    \* 21 /data/ocr/tessdata
     [name |-> s_bin,           parent |-> 1,  link |-> 3],    \* 22 /bin -> /usr/bin
     [name |-> s_tessdata,      parent |-> 2,  link |-> 0],    \* 23 /usr/tessdata
     [name |-> s_ocr,           parent |-> 11, link |-> 0],    \* 24 /usr/local/share/ocr
     [name |-> s_five,          parent |-> 24, link |-> 0],    \* 25 /usr/local/share/ocr/5
     [name |-> s_bin,           parent |-> 25, link |-> 0],    \* 26 /usr/local/share/ocr/5/bin
     [name |-> s_tessdata,      parent |-> 26, link |-> 0],    \* 27 /usr/local/share/ocr/5/bin/tessdata
     [name |-> s_opt,           parent |-> 26, link |-> 0],    \* 28 /usr/local/share/ocr/5/bin/opt
     [name |-> s_tessdata,      parent |-> 28, link |-> 0] >>  \* 29 /usr/local/share/ocr/5/bin/opt/tessdata

Nodes == 1..Len(Dirs)

\* the absolute path string of a directory entry
RECURSIVE PathOf(_)
PathOf(n) ==
  With(n, LAMBDA d :
    IF d = Root THEN <<"/">> ELSE pathjoin(PathOf(Dirs[d].parent), Dirs[d].name))
(***************************************************************************)
(* State                                                                   *)
(***************************************************************************)
VARIABLES
  \* the finder object (TessdataFinder.__init__)
  timeout,          \* self.timeout
  max_workers,      \* self.max_workers
  start_time,       \* self.start_time; NoTime is None
  found_paths,      \* self.found_paths
  last_write,       \* self.lock: whether the last mutation of found_paths held it
  \* the process environment the probes consult
  now,              \* the reading of time.time() / time.monotonic()
  world,            \* which of Worlds the process runs in
  \* the caller's thread: find_all_tessdata_paths / find_primary_tessdata_path
  pc,               \* the caller's position
  method,           \* index into search_methods[:3] of the tier-1 loop
  probe,            \* locals of the tier-1 probe being run
  ran,              \* the tier-1 probes that were called
  raised,           \* the tier-1 probes whose exception was caught
  outer,            \* as_completed state of the tier-2 harvest
  futures,          \* the tier-2 futures: 1 registry/dummy, 2 filesystem crawl
  result,           \* the outcome of find_all_tessdata_paths
  ret,              \* the outcome of find_primary_tessdata_path
  \* the filesystem-crawl task: _search_filesystem_smart
  fs,               \* its position, its paths list and its as_completed state
  crawl,            \* per search root: the future of _search_directory_tree
  stack,            \* per search root: the call stack of _recursive_search
  found,            \* per search root: the found list
  listed            \* the directories whose entries a crawl has listed (lines 272, 439)

vars == <<timeout, max_workers, start_time, found_paths, last_write, now, world, pc, method,
          probe, ran, raised, outer, futures, result, ret, fs, crawl, stack, found,
          listed>>

\* what a call leaves alone: the configuration and the environment
setup == <<timeout, max_workers, world>>

NoTime == 0              \* self.start_time = None
Unset == <<"None">>      \* os.environ.get(var) is None
os_type == "linux"       \* platform.system().lower()

(***************************************************************************)
(* The environments the search is run in                                   *)
(***************************************************************************)
p_data_ocr == <<"/", "d", "a", "t", "a", "/", "o", "c", "r">>
p_root_home == <<"/", "r", "o", "o", "t">>
p_opt == <<"/", "o", "p", "t">>
p_usr_bin == <<"/", "u", "s", "r", "/", "b", "i", "n">>
p_bin == <<"/", "b", "i", "n">>
p_Tessdata == <<"/", "u", "s", "r", "/", "s", "h", "a", "r", "e", "/", "T", "e", "s", "s", "d", "a", "t", "a">>
p_five_slash == <<"/", "u", "s", "r", "/", "s", "h", "a", "r", "e", "/", "t", "e", "s", "s", "e", "r", "a", "c", "t", "-", "o", "c", "r", "/", "5", "/">>
p_five_tessdata == <<"/", "u", "s", "r", "/", "s", "h", "a", "r", "e", "/", "t", "e", "s", "s", "e", "r", "a", "c", "t", "-", "o", "c", "r", "/", "5", "/", "t", "e", "s", "s", "d", "a", "t", "a", "/">>
p_deep_bin == <<"/", "u", "s", "r", "/", "l", "o", "c", "a", "l", "/", "s", "h", "a", "r", "e", "/", "o", "c", "r", "/", "5", "/", "b", "i", "n">>

tesseract_file == [dir |-> 3, name |-> s_tesseract]      \* /usr/bin/tesseract

\* what subprocess.run([binary, '--print-parameters']) can do: fail with
\* TimeoutExpired/OSError, fail to decode the output, or capture lines
run_error == [kind |-> "error"]
run_undecodable == [kind |-> "undecodable"]
run_silent == [kind |-> "output", lines |-> <<>>]
run_prints == [kind |-> "output", lines |-> << <<s_tessdata, p_five_tessdata>> >>]

Worlds ==
  << \* TESSDATA_PREFIX names the parent of a tessdata directory
    [environ |-> [TESSDATA_PREFIX |-> p_data_ocr, TESSERACT_DATA_PATH |-> Unset,
                  TESSERACT_PREFIX |-> Unset, PATH |-> <<p_usr_bin, p_bin>>,
                  HOME |-> p_root_home],
     case_insensitive |-> FALSE, absent |-> 24..29, traineddata |-> {6, 8, 12, 21},
     executables |-> {tesseract_file}, subprocess |-> {run_prints, run_undecodable}],
    \* no variable set, one installation under /usr, a binary that fails
    [environ |-> [TESSDATA_PREFIX |-> Unset, TESSERACT_DATA_PATH |-> Unset,
                  TESSERACT_PREFIX |-> Unset, PATH |-> <<p_usr_bin>>,
                  HOME |-> p_root_home],
     case_insensitive |-> FALSE, absent |-> 24..29, traineddata |-> {6},
     executables |-> {tesseract_file}, subprocess |-> {run_error, run_undecodable}],
    \* a case-insensitive filesystem and a variable spelled in another case
    [environ |-> [TESSDATA_PREFIX |-> p_Tessdata, TESSERACT_DATA_PATH |-> <<>>,
                  TESSERACT_PREFIX |-> Unset, PATH |-> <<>>,
                  HOME |-> p_root_home],
     case_insensitive |-> TRUE, absent |-> 24..29, traineddata |-> {9, 12},
     executables |-> {}, subprocess |-> {run_error}],
    \* a variable reaching a tessdata directory through a symbolic link
    [environ |-> [TESSDATA_PREFIX |-> p_opt, TESSERACT_DATA_PATH |-> Unset,
                  TESSERACT_PREFIX |-> p_five_slash, PATH |-> <<>>,
                  HOME |-> p_data_ocr],
     case_insensitive |-> FALSE, absent |-> 24..29, traineddata |-> {8, 12, 15, 17},
     executables |-> {}, subprocess |-> {run_error}],
    \* an installation outside the common locations: directly under /usr and
    \* deep under /usr/local, where the variable names a directory that holds
    \* trained data itself and in its tessdata child
    [environ |-> [TESSDATA_PREFIX |-> p_deep_bin, TESSERACT_DATA_PATH |-> Unset,
                  TESSERACT_PREFIX |-> Unset, PATH |-> <<p_usr_bin>>,
                  HOME |-> Unset],
     case_insensitive |-> FALSE, absent |-> {}, traineddata |-> {23, 26, 27, 29},
     executables |-> {tesseract_file}, subprocess |-> {run_silent}] >>

\* the environment of this run
environ == Worlds[world].environ                    \* os.environ, Unset when absent
case_insensitive == Worlds[world].case_insensitive  \* the filesystem folds letter case
traineddata == Worlds[world].traineddata            \* directories holding *.traineddata
absent == Worlds[world].absent                      \* entries of Dirs that do not exist
executables == Worlds[world].executables            \* the executable files
subprocess == Worlds[world].subprocess              \* what running the binary can do

(***************************************************************************)
(* Filesystem queries                                                      *)
(***************************************************************************)
\* the entries of directory n
Children(n) == {c \in Nodes \ absent : c # Root /\ Dirs[c].parent = n}

\* whether a path component names a directory entry
NameMatch(comp, name) ==
  IF case_insensitive THEN lower(comp) = lower(name) ELSE comp = name

\* the entry of directory cur that a component names, NoNode when there is none
Entry(cur, comp) ==
  With({c \in Children(cur) : NameMatch(comp, Dirs[c].name)}, LAMBDA m :
    IF m = {} THEN NoNode ELSE CHOOSE c \in m : TRUE)

\* the kernel's path walk: symbolic links are followed
RECURSIVE Walk(_, _)
Walk(comps, cur) ==
  With2(comps, cur, LAMBDA cs, at :
    IF at = NoNode \/ cs = <<>> THEN at
    ELSE LET comp == Head(cs)
         IN  IF comp = <<>> \/ comp = <<".">> THEN Walk(Tail(cs), at)
             ELSE IF comp = <<".", ".">> THEN Walk(Tail(cs), Dirs[at].parent)
             ELSE With(Entry(at, comp), LAMBDA c :
                    IF c = NoNode THEN NoNode
                    ELSE Walk(Tail(cs), IF Dirs[c].link # 0 THEN Dirs[c].link ELSE c)))

\* the directory a path string denotes, NoNode when it is not a directory
Lookup(path) ==
  With(path, LAMBDA p :
    IF p = <<>> THEN NoNode
    ELSE Walk(split(IF startswith(p, <<"/">>) THEN p ELSE pathjoin(Cwd, p)), Root))

\* os.path.isdir / Path.is_dir
isdir(path) == Lookup(path) # NoNode

\* os.path.isfile(path) and os.access(path, os.X_OK)
isexecutable(path) ==
  With2(Lookup(dirname(path)), basename(path), LAMBDA d, name :
    d # NoNode /\ \E f \in executables : f.dir = d /\ NameMatch(name, f.name))

\* Path.resolve(): symbolic links replaced by their targets, .. collapsed,
\* the other components kept as spelled
RECURSIVE ResolveWalk(_, _, _)
ResolveWalk(comps, cur, out) ==
  With3(comps, cur, out, LAMBDA cs, at, res :
    IF cs = <<>> THEN res
    ELSE LET comp == Head(cs)
         IN  IF comp = <<>> \/ comp = <<".">> THEN ResolveWalk(Tail(cs), at, res)
             ELSE IF comp = <<".", ".">>
               THEN ResolveWalk(Tail(cs),
                                IF at = NoNode THEN NoNode ELSE Dirs[at].parent,
                                IF res = <<>> THEN res ELSE SubSeq(res, 1, Len(res) - 1))
             ELSE With(IF at = NoNode THEN NoNode ELSE Entry(at, comp), LAMBDA c :
                    IF c = NoNode THEN ResolveWalk(Tail(cs), NoNode, Append(res, comp))
                    ELSE IF Dirs[c].link # 0
                      THEN ResolveWalk(Tail(cs), Dirs[c].link,
                                       Tail(split(PathOf(Dirs[c].link))))
                    ELSE ResolveWalk(Tail(cs), c, Append(res, comp))))

resolve(path) ==
  With(path, LAMBDA p :
    <<"/">> \o joinslash(ResolveWalk(
       split(IF startswith(p, <<"/">>) THEN p ELSE pathjoin(Cwd, p)), Root, <<>>)))

\* _is_valid_tessdata_dir without the search for *.traineddata entries
_is_valid_tessdata_dir_any(path) ==
  IF ~isdir(path) THEN FALSE ELSE TRUE

\* _is_valid_tessdata_dir
_is_valid_tessdata_dir(path) ==
  With(path, LAMBDA p : IF ~isdir(p) THEN FALSE ELSE Lookup(p) \in traineddata)
(***************************************************************************)
(* The probes' computations                                                *)
(***************************************************************************)
\* concatenation of a sequence of sequences
RECURSIVE Flatten(_)
Flatten(ss) ==
  With(ss, LAMBDA seqs : IF seqs = <<>> THEN <<>> ELSE Head(seqs) \o Flatten(Tail(seqs)))

\* the elements of a sequence
Range(seq) == With(seq, LAMBDA s : {s[i] : i \in 1..Len(s)})

env_vars == <<"TESSDATA_PREFIX", "TESSERACT_DATA_PATH", "TESSERACT_PREFIX">>

\* body of the loop of _check_environment_vars for one variable
EnvVarPaths(var) ==
  LET path == environ[var]
  IN  IF path = Unset \/ path = <<>> THEN <<>>
      ELSE LET candidates == <<path, pathjoin(path, s_tessdata)>>
           IN  IF _is_valid_tessdata_dir(candidates[1]) THEN <<abspath(candidates[1])>>
               ELSE IF _is_valid_tessdata_dir(candidates[2]) THEN <<abspath(candidates[2])>>
               ELSE <<>>

\* _check_environment_vars returning at the first variable that matches
_check_environment_vars_first_match ==
  LET hits == {i \in 1..Len(env_vars) : EnvVarPaths(env_vars[i]) # <<>>}
  IN  IF hits = {} THEN <<>>
      ELSE EnvVarPaths(env_vars[CHOOSE i \in hits : \A j \in hits : i <= j])

_check_environment_vars == Flatten([i \in 1..Len(env_vars) |-> EnvVarPaths(env_vars[i])])

binary_names == <<s_tesseract, s_tesseract_exe>>

_get_common_binary_paths ==
  << <<"/", "u", "s", "r", "/", "b", "i", "n", "/", "t", "e", "s", "s", "e", "r", "a", "c", "t">>,
     <<"/", "u", "s", "r", "/", "l", "o", "c", "a", "l", "/", "b", "i", "n", "/", "t", "e", "s", "s", "e", "r", "a", "c", "t">>,
     <<"/", "o", "p", "t", "/", "t", "e", "s", "s", "e", "r", "a", "c", "t", "/", "b", "i", "n", "/", "t", "e", "s", "s", "e", "r", "a", "c", "t">> >>

\* shutil.which(name): the first PATH directory holding the executable
which(name) ==
  LET dirs == environ["PATH"]
  IN  With({i \in 1..Len(dirs) : isexecutable(pathjoin(dirs[i], name))}, LAMBDA hits :
        IF hits = {} THEN <<>>
        ELSE <<pathjoin(dirs[CHOOSE i \in hits : \A j \in hits : i <= j], name)>>)

\* "if executable and not in binaries: binaries.append"
RECURSIVE AddBinaries(_, _)
AddBinaries(cands, binaries) ==
  With2(cands, binaries, LAMBDA cs, bins :
    IF cs = <<>> THEN bins
    ELSE AddBinaries(Tail(cs),
                     IF isexecutable(Head(cs)) /\ Head(cs) \notin Range(bins)
                       THEN Append(bins, Head(cs)) ELSE bins))

_find_tesseract_binaries ==
  LET dirs == SelectSeq(environ["PATH"], LAMBDA d : d # <<>>)
      m1 == Flatten([i \in 1..Len(binary_names) |-> which(binary_names[i])])
      m2 == Flatten([i \in 1..Len(dirs) |->
                       [j \in 1..Len(binary_names) |-> pathjoin(dirs[i], binary_names[j])]])
  IN  AddBinaries(_get_common_binary_paths, AddBinaries(m2, AddBinaries(m1, <<>>)))

_get_relative_tessdata_paths ==
  << <<".", ".", "/", "s", "h", "a", "r", "e", "/", "t", "e", "s", "s", "e", "r", "a", "c", "t", "-", "o", "c", "r", "/", "t", "e", "s", "s", "d", "a", "t", "a">>,
     <<".", ".", "/", "s", "h", "a", "r", "e", "/", "t", "e", "s", "s", "e", "r", "a", "c", "t", "/", "t", "e", "s", "s", "d", "a", "t", "a">>,
     <<".", ".", "/", "s", "h", "a", "r", "e", "/", "t", "e", "s", "s", "d", "a", "t", "a">>,
     <<".", ".", "/", ".", ".", "/", "s", "h", "a", "r", "e", "/", "t", "e", "s", "s", "e", "r", "a", "c", "t", "-", "o", "c", "r", "/", "t", "e", "s", "s", "d", "a", "t", "a">>,
     <<".", ".", "/", ".", ".", "/", "s", "h", "a", "r", "e", "/", "t", "e", "s", "s", "e", "r", "a", "c", "t", "/", "t", "e", "s", "s", "d", "a", "t", "a">>,
     <<".", ".", "/", "t", "e", "s", "s", "d", "a", "t", "a">>,
     <<"t", "e", "s", "s", "d", "a", "t", "a">> >>

\* Method 1 of _check_tesseract_binary_info on the captured output, given as
\* its lines, each line as line.split()
RECURSIVE InfoWords(_)
InfoWords(words) ==
  With(words, LAMBDA ws :
    IF ws = <<>> THEN <<>>
    ELSE LET word == Head(ws)
         IN  (IF In(s_tessdata, word) /\ isdir(word) /\ _is_valid_tessdata_dir(word)
                THEN <<abspath(word)>> ELSE <<>>) \o InfoWords(Tail(ws)))

InfoPaths(lines) ==
  With(lines, LAMBDA ls :
    Flatten([i \in 1..Len(ls) |->
               IF \E w \in Range(ls[i]) : In(s_tessdata, lower(w))
                 THEN InfoWords(ls[i]) ELSE <<>>]))

\* Method 2 of _check_tesseract_binary_info: relative to the binary location
RECURSIVE RelativePaths(_, _, _)
RelativePaths(bin_dir, rels, paths) ==
  With3(bin_dir, rels, paths, LAMBDA dir, rs, ps :
    IF rs = <<>> THEN ps
    ELSE With(pathjoin(dir, Head(rs)), LAMBDA candidate :
           With(resolve(candidate), LAMBDA abs_path :
             RelativePaths(dir, Tail(rs),
               IF isdir(candidate) /\ _is_valid_tessdata_dir(candidate)
                  /\ abs_path \notin Range(ps)
                 THEN Append(ps, abs_path) ELSE ps))))

_get_common_tessdata_paths ==
  << <<"/", "u", "s", "r", "/", "s", "h", "a", "r", "e", "/", "t", "e", "s", "s", "e", "r", "a", "c", "t", "-", "o", "c", "r", "/", "t", "e", "s", "s", "d", "a", "t", "a">>,
     <<"/", "u", "s", "r", "/", "s", "h", "a", "r", "e", "/", "t", "e", "s", "s", "d", "a", "t", "a">>,
     <<"/", "u", "s", "r", "/", "l", "o", "c", "a", "l", "/", "s", "h", "a", "r", "e", "/", "t", "e", "s", "s", "e", "r", "a", "c", "t", "-", "o", "c", "r", "/", "t", "e", "s", "s", "d", "a", "t", "a">>,
     <<"/", "u", "s", "r", "/", "l", "o", "c", "a", "l", "/", "s", "h", "a", "r", "e", "/", "t", "e", "s", "s", "d", "a", "t", "a">>,
     <<"/", "o", "p", "t", "/", "t", "e", "s", "s", "e", "r", "a", "c", "t", "/", "s", "h", "a", "r", "e", "/", "t", "e", "s", "s", "d", "a", "t", "a">>,
     <<"~", "/", ".", "l", "o", "c", "a", "l", "/", "s", "h", "a", "r", "e", "/", "t", "e", "s", "s", "e", "r", "a", "c", "t", "/", "t", "e", "s", "s", "d", "a", "t", "a">>,
     <<"~", "/", ".", "t", "e", "s", "s", "e", "r", "a", "c", "t", "/", "t", "e", "s", "s", "d", "a", "t", "a">>,
     <<"~", "/", "t", "e", "s", "s", "d", "a", "t", "a">> >>

\* os.path.expanduser of posixpath: a leading ~ becomes $HOME
expanduser(path) ==
  With(path, LAMBDA p :
    IF ~startswith(p, <<"~">>) THEN p
    ELSE LET home == environ["HOME"]
             userhome == IF endswith(home, <<"/">>) /\ Len(home) > 1
                           THEN SubSeq(home, 1, Len(home) - 1) ELSE home
         IN  IF home = Unset THEN p
             ELSE IF userhome \o SubSeq(p, 2, Len(p)) = <<>> THEN <<"/">>
             ELSE userhome \o SubSeq(p, 2, Len(p)))

\* os.path.expandvars of posixpath: "if '$' not in path: return path"; no
\* template of this platform holds a '$'
expandvars(path) == path

\* body of the loop of _check_common_locations for one template
CommonPaths(path_template) ==
  With(expandvars(expanduser(path_template)), LAMBDA expanded_path :
    IF isdir(expanded_path) /\ _is_valid_tessdata_dir(expanded_path)
      THEN <<abspath(expanded_path)>> ELSE <<>>)

_get_search_roots == << <<"/", "u", "s", "r">>, <<"/", "u", "s", "r", "/", "l", "o", "c", "a", "l">>, <<"/", "o", "p", "t">> >>

\* max_depth with the root counted as depth 1
max_depth_from_one == IF os_type = "windows" THEN 5 ELSE 6

max_depth == IF os_type = "windows" THEN 4 ELSE 5

skip_dirs ==
  { <<"w", "i", "n", "d", "o", "w", "s">>, <<"s", "y", "s", "t", "e", "m", "3", "2">>, <<"s", "y", "s", "w", "o", "w", "6", "4">>,
    <<"$", "r", "e", "c", "y", "c", "l", "e", ".", "b", "i", "n">>, <<"r", "e", "c", "o", "v", "e", "r", "y">>,
    <<"p", "r", "o", "c">>, <<"s", "y", "s">>, <<"d", "e", "v">>, <<"r", "u", "n">>, <<"t", "m", "p">>, <<"v", "a", "r", "/", "t", "m", "p">>, <<"b", "o", "o", "t">>,
    <<".", "g", "i", "t">>, <<".", "s", "v", "n">>, <<"_", "_", "p", "y", "c", "a", "c", "h", "e", "_", "_">>,
    <<"n", "o", "d", "e", "_", "m", "o", "d", "u", "l", "e", "s">>, <<".", "v", "s", "c", "o", "d", "e">> }

interesting_keywords ==
  { <<"t", "e", "s", "s", "e", "r", "a", "c", "t">>, <<"o", "c", "r">>, <<"p", "r", "o", "g", "r", "a", "m">>, <<"s", "h", "a", "r", "e">>,
    <<"l", "o", "c", "a", "l">>, <<"o", "p", "t">>, <<"t", "o", "o", "l", "s">>, <<"b", "i", "n">> }

\* _should_search_directory without the keyword filter
_should_search_directory_unfiltered(path) ==
  With(lower(basename(path)), LAMBDA name :
    IF name \in skip_dirs THEN FALSE ELSE TRUE)

_should_search_directory(path) ==
  With(lower(basename(path)), LAMBDA name :
    IF name \in skip_dirs THEN FALSE
    ELSE (\E keyword \in interesting_keywords : In(keyword, name)) \/ Len(name) < 3)
(***************************************************************************)
(* _prioritize_paths                                                       *)
(***************************************************************************)
env_tokens == { <<"t", "e", "s", "s", "d", "a", "t", "a", "_", "p", "r", "e", "f", "i", "x">>,
                <<"t", "e", "s", "s", "e", "r", "a", "c", "t">> }

sys_paths == { <<"/", "u", "s", "r", "/", "s", "h", "a", "r", "e">>,
               <<"/", "u", "s", "r", "/", "l", "o", "c", "a", "l", "/", "s", "h", "a", "r", "e">>,
               <<"p", "r", "o", "g", "r", "a", "m", " ", "f", "i", "l", "e", "s">> }

\* priority_key with the engine-token bonus added instead of subtracted
priority_key_penalty(path) ==
  With2(path, lower(path), LAMBDA p, path_lower :
    LET p1 == IF \E env \in env_tokens : In(env, path_lower) THEN 1000 ELSE 0
        p2 == IF \E sys_path \in sys_paths : In(sys_path, path_lower) THEN p1 - 100 ELSE p1
        p3 == IF \E i \in 1..Len(p) : isdigit(p[i]) THEN p2 - 10 ELSE p2
    IN  <<p3, path_lower>>)

\* priority_key: (priority, path_lower)
priority_key(path) ==
  With2(path, lower(path), LAMBDA p, path_lower :
    LET p1 == IF \E env \in env_tokens : In(env, path_lower) THEN 0 - 1000 ELSE 0
        p2 == IF \E sys_path \in sys_paths : In(sys_path, path_lower) THEN p1 - 100 ELSE p1
        p3 == IF \E i \in 1..Len(p) : isdigit(p[i]) THEN p2 - 10 ELSE p2
    IN  <<p3, path_lower>>)

\* priority_key on the path strings of the modelled filesystem, computed once
KeyCache == [path \in {PathOf(n) : n \in Nodes} |-> priority_key(path)]

\* the key the sort computes for an element
KeyOf(path) ==
  With(path, LAMBDA p : IF p \in DOMAIN KeyCache THEN KeyCache[p] ELSE priority_key(p))

\* Python's tuple comparison k1 < k2 on (int, str)
KeyLess(k1, k2) ==
  With2(k1, k2, LAMBDA a, b : a[1] < b[1] \/ (a[1] = b[1] /\ StrLess(a[2], b[2])))

\* "remove duplicates while preserving order" on os.path.normpath
RECURSIVE Unique(_, _)
Unique(paths, unique_paths) ==
  With2(paths, unique_paths, LAMBDA ps, seen :
    IF ps = <<>> THEN seen
    ELSE With(normpath(Head(ps)), LAMBDA normalized :
           Unique(Tail(ps),
                  IF normalized \notin Range(seen)
                    THEN Append(seen, normalized) ELSE seen)))

\* sorted(seq, key=priority_key): the keys are computed once per element
\* and the sort is stable; a decorated element is <<key, element>>
RECURSIVE InsertSorted(_, _)
InsertSorted(x, sortedseq) ==
  With2(x, sortedseq, LAMBDA e, ss :
    IF ss = <<>> THEN <<e>>
    ELSE IF KeyLess(e[1], ss[1][1]) THEN <<e>> \o ss
    ELSE <<Head(ss)>> \o InsertSorted(e, Tail(ss)))

RECURSIVE SortDecorated(_)
SortDecorated(seq) ==
  With(seq, LAMBDA s :
    IF s = <<>> THEN <<>>
    ELSE InsertSorted(s[Len(s)], SortDecorated(SubSeq(s, 1, Len(s) - 1))))

sorted(seq) ==
  With(seq, LAMBDA s :
    With(SortDecorated([i \in 1..Len(s) |-> <<KeyOf(s[i]), s[i]>>]), LAMBDA ordered :
      [i \in 1..Len(s) |-> ordered[i][2]]))

_prioritize_paths(paths) == sorted(Unique(paths, <<>>))

\* list(a_set): the elements in the set's iteration order, which is not fixed
RECURSIVE ListsOf(_)
ListsOf(S) ==
  With(S, LAMBDA elems :
    IF elems = {} THEN {<<>>}
    ELSE UNION {{<<x>> \o l : l \in ListsOf(elems \ {x})} : x \in elems})

(***************************************************************************)
(* The budget                                                              *)
(***************************************************************************)
_elapsed == IF start_time # NoTime THEN now - start_time ELSE 0

_is_timeout == _elapsed > timeout

\* max(1, self.timeout - self._elapsed())
WaitTimeout == IF timeout - _elapsed > 1 THEN timeout - _elapsed ELSE 1

Roots == 1..Len(_get_search_roots)
Tasks == {1, 2}          \* search_methods[3:]
NoProbe == [idx |-> 0, paths |-> <<>>, binaries |-> <<>>]
NoWait == [end_time |-> 0, pending |-> {}, queue |-> <<>>, exc |-> FALSE]
NoFuture == [state |-> "none", paths |-> <<>>]
NoResult == [kind |-> "none"]

Init ==
  /\ timeout \in 0..MaxTimeout
  /\ max_workers \in 1..MaxWorkers
  /\ world \in 1..Len(Worlds)
  /\ now = 1
  /\ start_time = NoTime
  /\ found_paths = {}
  /\ last_write = "none"
  /\ pc = "idle"
  /\ method = 0
  /\ probe = NoProbe
  /\ ran = {}
  /\ raised = {}
  /\ outer = NoWait
  /\ futures = [t \in Tasks |-> NoFuture]
  /\ result = NoResult
  /\ ret = NoResult
  /\ fs = [pc |-> "idle", wait |-> NoWait, paths |-> <<>>]
  /\ crawl = [r \in Roots |-> "none"]
  /\ stack = [r \in Roots |-> <<>>]
  /\ found = [r \in Roots |-> <<>>]
  /\ listed = {}

(***************************************************************************)
(* The clock                                                               *)
(***************************************************************************)
Tick ==
  /\ pc \notin {"idle", "returned", "done"}
  /\ now < MaxTime
  /\ now' = now + 1
  /\ UNCHANGED <<setup, start_time, found_paths, last_write, pc, method, probe, ran, raised,
                 outer, futures, result, ret, fs, crawl, stack, found, listed>>

(***************************************************************************)
(* find_all_tessdata_paths: entry and tier 1                               *)
(***************************************************************************)
tier2 == <<outer, futures, fs, crawl, stack, found, listed>>

\* lines 46-47
Call ==
  /\ pc = "idle"
  /\ start_time' = now
  /\ found_paths' = {}
  /\ last_write' = "unlocked"
  /\ method' = 1
  /\ pc' = "tier1"
  /\ UNCHANGED <<setup, now, probe, ran, raised, result, ret, tier2>>

\* lines 63-64: the budget is expired before a tier-1 method
Tier1Break ==
  /\ pc = "tier1" /\ method <= 3
  /\ _is_timeout
  /\ pc' = "gate"
  /\ UNCHANGED <<setup, now, start_time, found_paths, last_write, method, probe, ran, raised,
                 result, ret, tier2>>

\* the for loop of line 62 is exhausted
Tier1End ==
  /\ pc = "tier1" /\ method > 3
  /\ pc' = "gate"
  /\ UNCHANGED <<setup, now, start_time, found_paths, last_write, method, probe, ran, raised,
                 result, ret, tier2>>

\* lines 65-68 with method = _check_environment_vars
EnvProbe ==
  /\ pc = "tier1" /\ method = 1
  /\ ~_is_timeout
  /\ ran' = ran \cup {"env"}
  /\ found_paths' = found_paths \cup Range(_check_environment_vars)
  /\ last_write' = "locked"
  /\ method' = 2
  /\ UNCHANGED <<setup, now, start_time, pc, probe, raised, result, ret, tier2>>

\* lines 65-66 and 132-135: _check_tesseract_binary_info is called
BinaryProbe ==
  /\ pc = "tier1" /\ method = 2
  /\ ~_is_timeout
  /\ ran' = ran \cup {"binary"}
  /\ probe' = [idx |-> 1, paths |-> <<>>, binaries |-> _find_tesseract_binaries]
  /\ pc' = "binary"
  /\ UNCHANGED <<setup, now, start_time, found_paths, last_write, method, raised, result, ret, tier2>>

\* BinaryRun with the handler of line 69 around the for statement of line 62:
\* the exception ends tier 1
BinaryRunUncaught ==
  /\ pc = "binary"
  /\ probe.idx <= Len(probe.binaries) /\ ~_is_timeout
  /\ \E t \in now..MaxTime : now' = t
  /\ \E res \in subprocess :
       LET binary == probe.binaries[probe.idx]
           bin_dir == resolve(dirname(binary))
           info == IF res.kind = "output" THEN InfoPaths(res.lines) ELSE <<>>
       IN  IF res.kind = "undecodable"
             THEN /\ raised' = raised \cup {"binary"}
                  /\ probe' = NoProbe
                  /\ method' = 3
                  /\ pc' = "gate"
             ELSE /\ probe' = [probe EXCEPT
                       !.idx = @ + 1,
                       !.paths = RelativePaths(bin_dir, _get_relative_tessdata_paths,
                                               probe.paths \o info)]
                  /\ UNCHANGED <<raised, method, pc>>
  /\ UNCHANGED <<setup, start_time, found_paths, last_write, ran, result, ret, tier2>>

\* lines 137-174 for one binary: the budget check, the subprocess call,
\* which lasts until some later reading t of the clock, and then the paths
\* relative to the binary; an undecodable output raises out of
\* the probe and is caught at line 69
BinaryRun ==
  /\ pc = "binary"
  /\ probe.idx <= Len(probe.binaries) /\ ~_is_timeout
  /\ \E t \in now..MaxTime : now' = t
  /\ \E res \in subprocess :
       LET binary == probe.binaries[probe.idx]
           bin_dir == resolve(dirname(binary))
           info == IF res.kind = "output" THEN InfoPaths(res.lines) ELSE <<>>
       IN  IF res.kind = "undecodable"
             THEN /\ raised' = raised \cup {"binary"}
                  /\ probe' = NoProbe
                  /\ method' = 3
                  /\ pc' = "tier1"
             ELSE /\ probe' = [probe EXCEPT
                       !.idx = @ + 1,
                       !.paths = RelativePaths(bin_dir, _get_relative_tessdata_paths,
                                               probe.paths \o info)]
                  /\ UNCHANGED <<raised, method, pc>>
  /\ UNCHANGED <<setup, start_time, found_paths, last_write, ran, result, ret, tier2>>

\* lines 137-139, 176 and 67-68: the loop ends or breaks, the paths are merged
BinaryReturn ==
  /\ pc = "binary"
  /\ probe.idx > Len(probe.binaries) \/ _is_timeout
  /\ found_paths' = found_paths \cup Range(probe.paths)
  /\ last_write' = "locked"
  /\ probe' = NoProbe
  /\ method' = 3
  /\ pc' = "tier1"
  /\ UNCHANGED <<setup, now, start_time, ran, raised, result, ret, tier2>>

\* lines 65-66 and 180-181: _check_common_locations is called
CommonProbe ==
  /\ pc = "tier1" /\ method = 3
  /\ ~_is_timeout
  /\ ran' = ran \cup {"common"}
  /\ probe' = [idx |-> 1, paths |-> <<>>, binaries |-> <<>>]
  /\ pc' = "common"
  /\ UNCHANGED <<setup, now, start_time, found_paths, last_write, method, raised, result, ret, tier2>>

\* lines 183-196: one template
CommonStep ==
  /\ pc = "common"
  /\ probe.idx <= Len(_get_common_tessdata_paths) /\ ~_is_timeout
  /\ probe' = [probe EXCEPT
       !.idx = @ + 1,
       !.paths = @ \o CommonPaths(_get_common_tessdata_paths[probe.idx])]
  /\ UNCHANGED <<setup, now, start_time, found_paths, last_write, pc, method, ran, raised,
                 result, ret, tier2>>

\* lines 184-185, 198 and 67-68
CommonReturn ==
  /\ pc = "common"
  /\ probe.idx > Len(_get_common_tessdata_paths) \/ _is_timeout
  /\ found_paths' = found_paths \cup Range(probe.paths)
  /\ last_write' = "locked"
  /\ probe' = NoProbe
  /\ method' = 4
  /\ pc' = "tier1"
  /\ UNCHANGED <<setup, now, start_time, ran, raised, result, ret, tier2>>

(***************************************************************************)
(* Tier 2: the executor, the harvest and the return                        *)
(***************************************************************************)
tier1 == <<method, probe, ran, raised>>
crawls == <<crawl, stack, found, listed>>

\* Done counting only the futures that returned
DoneReturned(f) == f.state = "finished"

Done(f) == f.state \in {"finished", "raised"}

\* line 74 is false: tier 2 is skipped
GateSkip ==
  /\ pc = "gate"
  /\ _is_timeout
  /\ pc' = "prioritize"
  /\ UNCHANGED <<setup, now, start_time, found_paths, last_write, tier1, result, ret, tier2>>

\* lines 74-79: both methods are submitted and as_completed is set up
Submit ==
  /\ pc = "gate"
  /\ ~_is_timeout
  /\ futures' = [t \in Tasks |-> [state |-> "queued", paths |-> <<>>]]
  /\ outer' = [end_time |-> now + WaitTimeout, pending |-> Tasks, queue |-> <<>>,
               exc |-> FALSE]
  /\ pc' = "as_completed"
  /\ UNCHANGED <<setup, now, start_time, found_paths, last_write, tier1, result, ret, fs, crawls>>

\* as_completed, "while pending": the wait has ended without every future
\* being yielded, and TimeoutError leaves the for statement of line 79
HarvestTimeout ==
  /\ pc = "as_completed"
  /\ outer.queue = <<>> /\ outer.pending # {}
  /\ now > outer.end_time
  /\ outer' = [outer EXCEPT !.exc = TRUE]
  /\ pc' = "shutdown"
  /\ UNCHANGED <<setup, now, start_time, found_paths, last_write, tier1, result, ret, futures,
                 fs, crawls>>

\* as_completed: the wait returns with the futures that have finished
HarvestCollect ==
  /\ pc = "as_completed"
  /\ outer.queue = <<>>
  /\ now <= outer.end_time
  /\ LET fin == {t \in outer.pending : Done(futures[t])}
     IN  /\ fin # {}
         /\ \E q \in ListsOf(fin) : outer' = [outer EXCEPT !.queue = q]
  /\ UNCHANGED <<setup, now, start_time, found_paths, last_write, pc, tier1, result, ret,
                 futures, fs, crawls>>

\* lines 80-88: the loop body on the future as_completed yields
HarvestBody ==
  /\ pc = "as_completed"
  /\ outer.queue # <<>>
  /\ LET t == Head(outer.queue)
     IN  /\ outer' = [outer EXCEPT !.queue = Tail(@), !.pending = @ \ {t}]
         /\ IF _is_timeout
              THEN pc' = "shutdown" /\ UNCHANGED <<found_paths, last_write>>
              ELSE /\ pc' = pc
                   /\ found_paths' = IF futures[t].state = "finished"
                                       THEN found_paths \cup Range(futures[t].paths)
                                       ELSE found_paths
                   /\ last_write' = IF futures[t].state = "finished"
                                      THEN "locked" ELSE last_write
  /\ UNCHANGED <<setup, now, start_time, tier1, result, ret, futures, fs, crawls>>

\* the end of the with block of line 75 as shutdown(wait=False)
ShutdownNoWait ==
  /\ \/ pc = "shutdown"
     \/ pc = "as_completed" /\ outer.queue = <<>> /\ outer.pending = {}
  /\ IF outer.exc
       THEN result' = [kind |-> "raise"] /\ pc' = "returned"
       ELSE pc' = "prioritize" /\ UNCHANGED result
  /\ UNCHANGED <<setup, now, start_time, found_paths, last_write, tier1, ret, tier2>>

\* the for statement of line 79 has ended, broken or raised; end of the with
\* block of line 75: ThreadPoolExecutor.__exit__ is shutdown(wait=True); a
\* pending TimeoutError then leaves find_all
Shutdown ==
  /\ \/ pc = "shutdown"
     \/ pc = "as_completed" /\ outer.queue = <<>> /\ outer.pending = {}
  /\ \A t \in Tasks : Done(futures[t])
  /\ IF outer.exc
       THEN result' = [kind |-> "raise"] /\ pc' = "returned"
       ELSE pc' = "prioritize" /\ UNCHANGED result
  /\ UNCHANGED <<setup, now, start_time, found_paths, last_write, tier1, ret, tier2>>

\* lines 91-96: result = self._prioritize_paths(list(self.found_paths))
Prioritize ==
  /\ pc = "prioritize"
  /\ \E paths \in ListsOf(found_paths) :
       result' = [kind |-> "list", val |-> _prioritize_paths(paths)]
  /\ pc' = "returned"
  /\ UNCHANGED <<setup, now, start_time, found_paths, last_write, tier1, ret, tier2>>

\* line 109 with paths[-1] for paths[0]
find_primary_tessdata_path_last(paths) ==
  IF paths # <<>> THEN [kind |-> "path", val |-> paths[Len(paths)]] ELSE [kind |-> "None"]

\* line 109: return paths[0] if paths else None
find_primary_tessdata_path(paths) ==
  IF paths # <<>> THEN [kind |-> "path", val |-> paths[1]] ELSE [kind |-> "None"]

\* lines 108-109: the call was made by find_primary_tessdata_path, which
\* returns on the list or lets the exception through
PrimaryReturn ==
  /\ pc = "returned"
  /\ ret' = IF result.kind = "raise" THEN [kind |-> "raise"]
            ELSE find_primary_tessdata_path(result.val)
  /\ pc' = "done"
  /\ UNCHANGED <<setup, now, start_time, found_paths, last_write, tier1, result, tier2>>

(***************************************************************************)
(* The tier-2 tasks                                                        *)
(***************************************************************************)
caller == <<start_time, found_paths, last_write, pc, tier1, outer, result, ret>>

\* lines 57 and 485-487: _dummy_method stands for the registry probe
DummyTask ==
  /\ futures[1].state = "queued"
  /\ futures' = [futures EXCEPT ![1] = [state |-> "finished", paths |-> <<>>]]
  /\ UNCHANGED <<setup, now, caller, fs, crawls>>

\* a worker of the pool of line 75 is free for the second submitted task
WorkerFree == max_workers >= 2 \/ Done(futures[1])

\* lines 229-232: _search_filesystem_smart finds the budget expired
FsExpired ==
  /\ futures[2].state = "queued" /\ WorkerFree
  /\ _is_timeout
  /\ futures' = [futures EXCEPT ![2] = [state |-> "finished", paths |-> <<>>]]
  /\ UNCHANGED <<setup, now, caller, fs, crawls>>

\* lines 229-242: one _search_directory_tree per root is submitted
FsSubmit ==
  /\ futures[2].state = "queued" /\ WorkerFree
  /\ ~_is_timeout
  /\ futures' = [futures EXCEPT ![2].state = "running"]
  /\ crawl' = [r \in Roots |-> "queued"]
  /\ fs' = [pc |-> "as_completed", paths |-> <<>>,
            wait |-> [end_time |-> now + WaitTimeout, pending |-> Roots,
                      queue |-> <<>>, exc |-> FALSE]]
  /\ UNCHANGED <<setup, now, caller, stack, found, listed>>

\* as_completed of line 242 times out: TimeoutError leaves the for statement
FsTimeout ==
  /\ fs.pc = "as_completed"
  /\ fs.wait.queue = <<>> /\ fs.wait.pending # {}
  /\ now > fs.wait.end_time
  /\ fs' = [fs EXCEPT !.wait.exc = TRUE, !.pc = "shutdown"]
  /\ UNCHANGED <<setup, now, caller, futures, crawls>>

\* as_completed of line 242: the wait returns with the finished root tasks
FsCollect ==
  /\ fs.pc = "as_completed"
  /\ fs.wait.queue = <<>>
  /\ now <= fs.wait.end_time
  /\ LET fin == {r \in fs.wait.pending : crawl[r] = "finished"}
     IN  /\ fin # {}
         /\ \E q \in ListsOf(fin) : fs' = [fs EXCEPT !.wait.queue = q]
  /\ UNCHANGED <<setup, now, caller, futures, crawls>>

\* lines 243-249: the loop body on the root task as_completed yields
FsBody ==
  /\ fs.pc = "as_completed"
  /\ fs.wait.queue # <<>>
  /\ LET r == Head(fs.wait.queue)
     IN  IF _is_timeout
           THEN fs' = [fs EXCEPT !.pc = "shutdown"]
           ELSE fs' = [fs EXCEPT !.wait.queue = Tail(@), !.wait.pending = @ \ {r},
                                 !.paths = @ \o found[r]]
  /\ UNCHANGED <<setup, now, caller, futures, crawls>>

\* the for statement of line 242 has ended, broken or raised; end of the with
\* block of line 236 (shutdown(wait=True)); line 251 or the TimeoutError
FsReturn ==
  /\ \/ fs.pc = "shutdown"
     \/ fs.pc = "as_completed" /\ fs.wait.queue = <<>> /\ fs.wait.pending = {}
  /\ \A r \in Roots : crawl[r] = "finished"
  /\ fs' = [fs EXCEPT !.pc = "returned"]
  /\ futures' = [futures EXCEPT ![2] =
       IF fs.wait.exc THEN [state |-> "raised", paths |-> <<>>]
                      ELSE [state |-> "finished", paths |-> fs.paths]]
  /\ UNCHANGED <<setup, now, caller, crawls>>

(***************************************************************************)
(* The per-root tasks: _search_directory_tree / _recursive_search          *)
(***************************************************************************)
others == <<setup, now, caller, futures, fs>>

\* the pool of line 236 has min(len(search_roots), max_workers) workers and
\* starts the submitted tasks in order
PoolSize == IF Len(_get_search_roots) < max_workers
              THEN Len(_get_search_roots) ELSE max_workers

\* the returns of the calls whose for loop (line 272) is exhausted
RECURSIVE Unwind(_)
Unwind(st) ==
  With(st, LAMBDA calls :
    IF calls # <<>> /\ calls[Len(calls)].todo = {}
      THEN Unwind(SubSeq(calls, 1, Len(calls) - 1))
      ELSE calls)

\* _recursive_search without the is_symlink test of line 273
_recursive_search_following_links(r, st, node, depth) ==
  LET current_path == PathOf(node)
      entries == Children(node)
      st2 == IF depth > max_depth \/ _is_timeout THEN st
             ELSE IF basename(current_path) = s_tessdata
                     /\ _is_valid_tessdata_dir(current_path) THEN st
             ELSE IF _should_search_directory(current_path)
               THEN Append(st, [node |-> node, depth |-> depth, todo |-> entries])
             ELSE st
  IN  /\ stack' = [stack EXCEPT ![r] = Unwind(st2)]
      /\ crawl' = [crawl EXCEPT ![r] = IF Unwind(st2) = <<>> THEN "finished"
                                       ELSE "running"]
      /\ found' = IF /\ ~(depth > max_depth \/ _is_timeout)
                     /\ basename(current_path) = s_tessdata
                     /\ _is_valid_tessdata_dir(current_path)
                    THEN [found EXCEPT ![r] = Append(@, resolve(current_path))]
                    ELSE found
      /\ listed' = IF /\ ~(depth > max_depth \/ _is_timeout)
                      /\ basename(current_path) = s_tessdata \/ Len(st2) > Len(st)
                     THEN listed \cup {node} ELSE listed

\* lines 258-277: the call _recursive_search(current_path, depth) of root r
\* made on top of the calls st; a listed directory stays on the stack with
\* the entries its for loop still has to reach; a directory named tessdata
\* is listed by the validator (line 439)
_recursive_search(r, st, node, depth) ==
  LET current_path == PathOf(node)
      entries == {c \in Children(node) : Dirs[c].link = 0}
      st2 == IF depth > max_depth \/ _is_timeout THEN st
             ELSE IF basename(current_path) = s_tessdata
                     /\ _is_valid_tessdata_dir(current_path) THEN st
             ELSE IF _should_search_directory(current_path)
               THEN Append(st, [node |-> node, depth |-> depth, todo |-> entries])
             ELSE st
  IN  /\ stack' = [stack EXCEPT ![r] = Unwind(st2)]
      /\ crawl' = [crawl EXCEPT ![r] = IF Unwind(st2) = <<>> THEN "finished"
                                       ELSE "running"]
      /\ found' = IF /\ ~(depth > max_depth \/ _is_timeout)
                     /\ basename(current_path) = s_tessdata
                     /\ _is_valid_tessdata_dir(current_path)
                    THEN [found EXCEPT ![r] = Append(@, resolve(current_path))]
                    ELSE found
      /\ listed' = IF /\ ~(depth > max_depth \/ _is_timeout)
                      /\ basename(current_path) = s_tessdata \/ Len(st2) > Len(st)
                     THEN listed \cup {node} ELSE listed

\* lines 255-256 and 279-284: a worker takes the root's task, which calls
\* _recursive_search(Path(root_path), 0)
CrawlStart(r) ==
  /\ crawl[r] = "queued"
  /\ \A q \in Roots : q < r => crawl[q] # "queued"
  /\ Cardinality({q \in Roots : crawl[q] = "running"}) < PoolSize
  /\ _recursive_search(r, <<>>, Lookup(_get_search_roots[r]), 0)
  /\ UNCHANGED others

\* lines 272-274: the for loop reaches an entry that is a directory and not
\* a symbolic link, and calls _recursive_search on it
CrawlDescend(r) ==
  /\ crawl[r] = "running"
  /\ LET top == stack[r][Len(stack[r])]
         rest == SubSeq(stack[r], 1, Len(stack[r]) - 1)
     IN  \E child \in top.todo :
           _recursive_search(r, Append(rest, [top EXCEPT !.todo = @ \ {child}]),
                             child, top.depth + 1)
  /\ UNCHANGED others

(***************************************************************************)
(* The specification                                                       *)
(***************************************************************************)
Next ==
  \/ Tick
  \/ Call
  \/ Tier1Break
  \/ Tier1End
  \/ EnvProbe
  \/ BinaryProbe
  \/ BinaryRun
  \/ BinaryReturn
  \/ CommonProbe
  \/ CommonStep
  \/ CommonReturn
  \/ GateSkip
  \/ Submit
  \/ HarvestTimeout
  \/ HarvestCollect
  \/ HarvestBody
  \/ Shutdown
  \/ Prioritize
  \/ PrimaryReturn
  \/ DummyTask
  \/ FsExpired
  \/ FsSubmit
  \/ FsTimeout
  \/ FsCollect
  \/ FsBody
  \/ FsReturn
  \/ \E r \in Roots : CrawlStart(r)
  \/ \E r \in Roots : CrawlDescend(r)

Spec == Init /\ [][Next]_vars

\* the caller's thread and the workers of both pools keep running: a step
\* that can be taken is eventually taken
FairSpec == Spec /\ WF_vars(Next)

(***************************************************************************)
(* A second invocation on the same object                                  *)
(***************************************************************************)
\* another thread calls find_all_tessdata_paths on the finder while the first
\* call has not returned; it is followed through lines 46-47, its writes to
\* the budget and to the found set the first call is using
Reenter ==
  /\ pc \notin {"idle", "returned", "done"}
  /\ start_time' = now
  /\ found_paths' = {}
  /\ last_write' = "unlocked"
  /\ UNCHANGED <<setup, now, pc, tier1, result, ret, tier2>>

NextReentrant == Next \/ Reenter

\* the second invocation is studied in the first environment
InitReentrant == Init /\ world = 1

SpecReentrant == InitReentrant /\ [][NextReentrant]_vars

(***************************************************************************)
(* Properties                                                              *)
(***************************************************************************)
\* find_all_tessdata_paths has handed control back to its caller
Returned == pc \in {"returned", "done"}

\* it handed back a list
ReturnedList == Returned /\ result.kind = "list"

\* the directories from a down to n, both included (a is n or above it)
RECURSIVE Chain(_, _)
Chain(a, n) == IF n = a \/ n = Root THEN {n} ELSE {n} \cup Chain(a, Dirs[n].parent)

\* C1: whatever the probes do (return, raise, still run when the harvest
\* wait ends), find_all returns a list and propagates no exception.
C1_NoException == Returned => result.kind = "list"

\* C2: when a tier-2 task raised or was unfinished at the end of the harvest
\* wait, find_all still returns a list, and that list holds the tier-1 paths
\* and the paths of every tier-2 task that finished and was yielded.
C2_PartialResult ==
  (Returned /\ (outer.exc \/ \E t \in Tasks : futures[t].state = "raised"))
    => /\ result.kind = "list"
       /\ \A t \in Tasks \ outer.pending :
            futures[t].state = "finished" =>
              \A path \in Range(futures[t].paths) : normpath(path) \in Range(result.val)

\* C3: with timeout = 0 no tier-1 probe is run, tier 2 is not submitted and
\* no directory is listed by the crawl.
C3_ExpiredOnEntry ==
  timeout = 0 =>
    /\ ran = {}
    /\ \A t \in Tasks : futures[t].state = "none"
    /\ listed = {}

\* C4: the returned list never holds two entries for the same real directory.
C4_OneEntryPerDirectory ==
  ReturnedList =>
    \A i, j \in 1..Len(result.val) :
      i # j => Lookup(result.val[i]) # Lookup(result.val[j])

\* C5: a directory the environment probe discovers through TESSDATA_PREFIX
\* comes, in the returned list, ahead of every path that only other probes
\* discovered.
C5_PrefixFirst ==
  (ReturnedList /\ "env" \in ran /\ EnvVarPaths("TESSDATA_PREFIX") # <<>>)
    => LET prefix_path == normpath(EnvVarPaths("TESSDATA_PREFIX")[1])
           env_paths == {normpath(path) : path \in Range(_check_environment_vars)}
       IN  \A i, j \in 1..Len(result.val) :
             (result.val[i] = prefix_path /\ result.val[j] \notin env_paths) => i < j

\* the score as C6 words it
C6_Score(path) ==
  (IF In(<<"t", "e", "s", "s", "d", "a", "t", "a", "_", "p", "r", "e", "f", "i", "x">>, lower(path)) \/ In(<<"t", "e", "s", "s", "e", "r", "a", "c", "t">>, lower(path))
     THEN 0 - 1000 ELSE 0)
  + (IF \/ In(<<"/", "u", "s", "r", "/", "s", "h", "a", "r", "e">>, lower(path))
        \/ In(<<"/", "u", "s", "r", "/", "l", "o", "c", "a", "l", "/", "s", "h", "a", "r", "e">>, lower(path))
        \/ In(<<"p", "r", "o", "g", "r", "a", "m", " ", "f", "i", "l", "e", "s">>, lower(path))
       THEN 0 - 100 ELSE 0)
  + (IF \E i \in 1..Len(path) : isdigit(path[i]) THEN 0 - 10 ELSE 0)

\* a path holding the engine's data-prefix token or its name
C6_HasToken(path) ==
  In(<<"t", "e", "s", "s", "d", "a", "t", "a", "_", "p", "r", "e", "f", "i", "x">>, lower(path)) \/ In(<<"t", "e", "s", "s", "e", "r", "a", "c", "t">>, lower(path))

\* C6: the returned list is sorted ascending by (score, lowercased path),
\* the score being 0, less 1000 for the engine token, less 100 for a
\* standard system location, less 10 for a digit; so a path holding the
\* engine token never comes after one that does not.
C6_SortedByKey ==
  ReturnedList =>
    \A i, j \in 1..Len(result.val) :
      i < j =>
        /\ \/ C6_Score(result.val[i]) < C6_Score(result.val[j])
           \/ /\ C6_Score(result.val[i]) = C6_Score(result.val[j])
              /\ ~StrLess(lower(result.val[j]), lower(result.val[i]))
        /\ C6_HasToken(result.val[j]) => C6_HasToken(result.val[i])

\* C6 witness: a list was returned in which a path with the engine token is
\* followed by a path without it
C6_Witness ==
  /\ ReturnedList
  /\ \E i, j \in 1..Len(result.val) :
       i < j /\ C6_HasToken(result.val[i]) /\ ~C6_HasToken(result.val[j])

\* C7: the returned sequence is determined by the accumulated set: every
\* iteration order of the set gives the sequence that was returned.
C7_OrderIsAFunctionOfTheSet ==
  ReturnedList => \A paths \in ListsOf(found_paths) : _prioritize_paths(paths) = result.val

\* the allow-list keywords as C8 lists them
C8_Keywords ==
  { <<"t", "e", "s", "s", "e", "r", "a", "c", "t">>, <<"o", "c", "r">>, <<"p", "r", "o", "g", "r", "a", "m">>, <<"s", "h", "a", "r", "e">>,
    <<"l", "o", "c", "a", "l">>, <<"o", "p", "t">>, <<"t", "o", "o", "l", "s">>, <<"b", "i", "n">> }

\* a directory name that C8 says stops the crawl
C8_Blocked(name) ==
  \/ lower(name) \in skip_dirs
  \/ Len(name) >= 3 /\ \A keyword \in C8_Keywords : ~In(keyword, lower(name))

\* C8: the crawl of a root never records a tessdata directory when a
\* directory on the way from the root down to its parent has a blocked name.
C8_NoRecordBehindBlockedName ==
  \A r \in Roots : \A path \in Range(found[r]) :
    LET n == Lookup(path)
    IN  /\ n # NoNode /\ n # Lookup(_get_search_roots[r])
        /\ \A a \in Chain(Lookup(_get_search_roots[r]), Dirs[n].parent) :
             ~C8_Blocked(Dirs[a].name)

\* C8 witness: the crawl of /opt has listed /opt and finished while
\* /opt/weird/tessdata and /opt/$recycle.bin/tessdata hold trained data,
\* and the crawl of /usr/local has recorded a directory
C8_Witness ==
  /\ {15, 17} \subseteq traineddata
  /\ crawl[3] = "finished" /\ 13 \in listed /\ found[3] = <<>>
  /\ found[2] # <<>>

\* C9: when find_all returns or raises, no tier-2 task and no per-root task
\* it started is still queued or running.
C9_NoProbeOutlivesTheCall ==
  Returned =>
    /\ \A t \in Tasks : futures[t].state \notin {"queued", "running"}
    /\ \A r \in Roots : crawl[r] \notin {"queued", "running"}

\* C9 witness: the harvest wait ended with a task unfinished, find_all has
\* raised, and the crawl had been started
C9_Witness ==
  /\ Returned /\ result.kind = "raise"
  /\ \A r \in Roots : crawl[r] = "finished"

\* C10: find_primary returns the first element of the list find_all
\* returned, and None exactly when that list is empty.
C10_PrimaryIsFirst ==
  (pc = "done" /\ result.kind = "list") =>
    /\ ret.kind = "None" <=> result.val = <<>>
    /\ result.val # <<>> => ret = [kind |-> "path", val |-> result.val[1]]

\* C10 witness: find_primary has returned on a list of several paths
C10_Witness == pc = "done" /\ result.kind = "list" /\ Len(result.val) >= 2 /\ ret.kind = "path"

\* C11: a tier-2 task that finished without raising and that the harvest
\* wait handed over before it ended has its paths in the returned list.
C11_FinishedTaskIsKept ==
  ReturnedList =>
    \A t \in Tasks \ outer.pending :
      futures[t].state = "finished" =>
        \A path \in Range(futures[t].paths) : normpath(path) \in Range(result.val)

\* tier 1 is over
C12_TierOneOver == pc \in {"gate", "as_completed", "shutdown", "prioritize", "returned", "done"}

\* C12: tier 1 runs the environment, binary and common-location probes in
\* that order; a probe or tier 2 is started only with the budget unexpired;
\* a probe that raised keeps neither the next probe from running while the
\* budget lasts nor the paths already accumulated out of the returned list.
C12_TierOne ==
  /\ [](/\ "binary" \in ran => "env" \in ran
        /\ "common" \in ran => "binary" \in ran
        /\ (C12_TierOneOver /\ "binary" \in raised /\ "common" \notin ran) => _is_timeout
        /\ (ReturnedList /\ raised # {}) =>
             \A path \in Range(_check_environment_vars) : normpath(path) \in Range(result.val))
  /\ [][(\/ ran' # ran
         \/ \E t \in Tasks : futures[t].state = "none" /\ futures'[t].state # "none")
          => ~_is_timeout]_vars

\* C12 witness: the binary probe raised after the environment probe had
\* found a path, the common-location probe ran, and a list was returned
C12_Witness ==
  /\ ReturnedList
  /\ "binary" \in raised /\ "common" \in ran
  /\ Range(_check_environment_vars) # {}

\* the binary probe is at a binary next to which Method 2 (lines 161-170)
\* finds a directory to validate, that is, to list
C13_Method2Lists ==
  /\ pc = "binary" /\ probe.idx <= Len(probe.binaries)
  /\ \E i \in 1..Len(_get_relative_tessdata_paths) :
       isdir(pathjoin(resolve(dirname(probe.binaries[probe.idx])),
                      _get_relative_tessdata_paths[i]))

\* C13: once the budget has expired a thread finishes the subprocess call or
\* directory listing it is in and starts no other: a crawl lists a directory
\* only with the budget unexpired, and the binary probe starts the listings
\* that follow its subprocess call only with the budget unexpired.
C13_SingleStepOverrun ==
  [][/\ listed' # listed => ~_is_timeout
     /\ (C13_Method2Lists /\ probe'.idx = probe.idx + 1) => ~(_is_timeout')]_vars

\* C14: while a find_all invocation is in progress the budget's start
\* instant does not change, no path leaves the found set, and the found set
\* changes only under the lock; also when find_all is invoked again on the
\* same object meanwhile.
C14_BudgetAndSetAreStable ==
  [][pc \notin {"idle", "returned", "done"} =>
       /\ start_time' = start_time
       /\ found_paths \subseteq found_paths'
       /\ found_paths' # found_paths => last_write' = "locked"]_vars

\* C15: the crawl of a root that ran with the budget unexpired has listed
\* the root itself and recorded every validating directory named tessdata
\* directly under it.
C15_RootIsSearched ==
  \A r \in Roots :
    (crawl[r] = "finished" /\ ~_is_timeout) =>
      LET root == Lookup(_get_search_roots[r])
      IN  /\ root \in listed
          /\ \A c \in Children(root) :
               (Dirs[c].name = s_tessdata /\ Dirs[c].link = 0 /\ c \in traineddata)
                 => PathOf(c) \in Range(found[r])

\* directory n is a or lies below it
C16_Under(a, n) == a \in Chain(a, n)

\* the depth of n below a, a itself being at depth 0
C16_Depth(a, n) == Cardinality(Chain(a, n)) - 1

\* C16: a crawl validates, lists or records no directory deeper than 5 below
\* its root, and a crawl that ran with the budget unexpired has recorded
\* every validating tessdata directory at depth exactly 5 whose ancestors
\* pass the filter.
C16_DepthBound ==
  /\ \A n \in listed :
       \E r \in Roots : LET root == Lookup(_get_search_roots[r])
                        IN  C16_Under(root, n) /\ C16_Depth(root, n) <= 5
  /\ \A r \in Roots :
       LET root == Lookup(_get_search_roots[r])
       IN  /\ \A path \in Range(found[r]) :
                C16_Under(root, Lookup(path)) /\ C16_Depth(root, Lookup(path)) <= 5
           /\ (crawl[r] = "finished" /\ ~_is_timeout) =>
                \A n \in Nodes \ absent :
                  (/\ n # root /\ C16_Under(root, n) /\ C16_Depth(root, n) = 5
                   /\ Dirs[n].name = s_tessdata /\ n \in traineddata
                   /\ \A a \in Chain(root, Dirs[n].parent) :
                        ~C8_Blocked(Dirs[a].name) /\ Dirs[a].link = 0)
                    => PathOf(n) \in Range(found[r])

\* C16 witness: the crawl of /usr/local has recorded the tessdata directory
\* at depth 5, has listed its sibling at depth 5 and has finished, while a
\* tessdata directory with trained data lies at depth 6
C16_Witness ==
  /\ crawl[2] = "finished" /\ 29 \in traineddata /\ 29 \notin absent
  /\ PathOf(27) \in Range(found[2])
  /\ 28 \in listed

\* C17: a crawl neither descends into nor records an entry that is a
\* symbolic link: every directory it lists is a real directory, every path
\* it records names a real directory reached from the root through real
\* directories only, and no directory is recorded twice.
C17_LinksAreNotFollowed ==
  /\ \A n \in listed : Dirs[n].link = 0
  /\ \A r \in Roots :
       LET root == Lookup(_get_search_roots[r])
       IN  /\ \A path \in Range(found[r]) :
                /\ root \in Chain(root, Lookup(path))
                /\ \A a \in Chain(root, Lookup(path)) : a # root => Dirs[a].link = 0
           /\ \A i, j \in 1..Len(found[r]) : i # j => found[r][i] # found[r][j]
           /\ \A i \in 1..Len(stack[r]) : Dirs[stack[r][i].node].link = 0

\* C17 witness: the crawl of /opt has listed /opt and finished while its
\* entry tessdata is a symbolic link to a directory holding trained data
C17_Witness ==
  /\ crawl[3] = "finished" /\ 13 \in listed
  /\ Dirs[18].link \in traineddata
  /\ found[3] = <<>>

\* what C18 says one variable of value v emits
C18_Emitted(v) ==
  IF v = Unset \/ v = <<>> THEN {}
  ELSE IF Lookup(v) # NoNode /\ Lookup(v) \in traineddata THEN {abspath(v)}
  ELSE IF /\ Lookup(pathjoin(v, s_tessdata)) # NoNode
          /\ Lookup(pathjoin(v, s_tessdata)) \in traineddata
    THEN {abspath(pathjoin(v, s_tessdata))}
  ELSE {}

\* C18: when the environment probe has returned, the found set holds, for
\* each of the three variables whatever the others gave, the raw value if
\* it validates, else the value joined with tessdata if that validates,
\* else nothing; nothing for an unset or empty variable.
C18_EnvironmentProbe ==
  (pc = "tier1" /\ method = 2) =>
    found_paths = C18_Emitted(environ.TESSDATA_PREFIX)
                    \cup C18_Emitted(environ.TESSERACT_DATA_PATH)
                    \cup C18_Emitted(environ.TESSERACT_PREFIX)

\* C18 witness: the probe has returned paths for two variables
C18_Witness ==
  /\ pc = "tier1" /\ method = 2
  /\ C18_Emitted(environ.TESSDATA_PREFIX) # {}
  /\ C18_Emitted(environ.TESSERACT_PREFIX) # {}
  /\ Cardinality(found_paths) = 2

\* the path names an existing directory that holds trained data
C19_Validates(path) == Lookup(path) # NoNode /\ Lookup(path) \in traineddata \ absent

\* C19: the found set a list is returned from holds only validated
\* directories, and the list is exactly the normalized found set: every entry validates,
\* none is added, no distinct normalized path is dropped or repeated.
C19_OnlyValidatedPaths ==
  ReturnedList =>
       /\ \A path \in found_paths : C19_Validates(path)
       /\ \A i \in 1..Len(result.val) : C19_Validates(result.val[i])
       /\ Range(result.val) = {normpath(path) : path \in found_paths}
       /\ \A i, j \in 1..Len(result.val) : i # j => result.val[i] # result.val[j]

\* C19 witness: a list of three or more paths was returned after all three
\* tier-1 probes ran and the crawl task's paths were merged
C19_Witness ==
  /\ ReturnedList /\ Len(result.val) >= 3
  /\ ran = {"env", "binary", "common"}
  /\ futures[2].state = "finished" /\ futures[2].paths # <<>>
  /\ Range(futures[2].paths) \subseteq found_paths

\* C20: every invocation of find_all eventually hands control back to its
\* caller, all its tier-2 and per-root tasks having finished.
C20_Terminates ==
  (pc = "tier1") ~>
    (/\ Returned
     /\ \A t \in Tasks : futures[t].state \notin {"queued", "running"}
     /\ \A r \in Roots : crawl[r] \notin {"queued", "running"})

\* C20 witness: the call has returned after the crawl task ran all its
\* per-root tasks to the end
C20_Witness ==
  /\ Returned
  /\ \A t \in Tasks : futures[t].state \in {"finished", "raised"}
  /\ \A r \in Roots : crawl[r] = "finished"
====
